---- MODULE Spec2Model ----
(***************************************************************************)
(* The macOS events loop of winit (src/platform/macos/events_loop.rs):     *)
(* the callback slot (UserCallback), the pending-event queue, the two loop *)
(* drivers poll_events and run_forever, interrupt, and the translator      *)
(* ns_event_to_event.  The main thread is a stack of loop invocations (a   *)
(* user callback may call poll_events / run_forever again); a second       *)
(* thread calls interrupt, and the system appends native events.           *)
(***************************************************************************)
EXTENDS Integers, Sequences, FiniteSets, TLC

VARIABLES
    user_callback,   \* UserCallback.mutex contents: 0 = None, n = Some(callback of invocation n)
    pending_events,  \* EventsLoop.pending_events (VecDeque<Event>)
    modifiers,       \* EventsLoop.modifiers
    interrupted,     \* EventsLoop.interrupted (AtomicBool)
    windows,         \* EventsLoop.windows (Vec<Arc<Window>>), in registration order
    native,          \* the NSApp event queue read by nextEventMatchingMask
    stack,           \* main thread: the live poll_events / run_forever invocations, outermost first
    held,            \* for each mutex, the invocation whose guard is alive across steps (0 = free)
    status,          \* main thread: "ok", or how it stopped ("deadlock", "panic", "unwrap_none")
    ipc,             \* the other thread's position inside interrupt(): "idle" or "post"
    forwarded,       \* history: native events handed to NSApp.sendEvent_, in order
    produced,        \* history: every normalized event built by the translator, in order
    delivered,       \* history: every normalized event a user callback was called with, in order
    budget,          \* history: counts of invocations, arrivals and interrupt calls
    nested,          \* history: some invocation was started from inside a user callback
    run              \* history: the run of interrupt() calls completed back to back

vars == <<user_callback, pending_events, modifiers, interrupted, windows, native, stack, held,
          status, ipc, forwarded, produced, delivered, budget, nested, run>>

(* ------------------------------ bounds --------------------------------- *)

\* deepest nesting of loop invocations (1 = no re-entry)
MaxDepth == 2
\* loop invocations started on the main thread, nested ones included
MaxEntries == 2
\* native events the system posts
MaxArrivals == 1
\* interrupt() calls, from any thread
MaxInterrupts == 2
\* call_with_event calls made on a UserCallback taken on its own
MaxCalls == 3
\* native events queued one behind the other when the translator is exercised
MaxSeq == 2

(* --------------------------- native events ----------------------------- *)

\* appkit modifier masks tested at lines 317, 326, 335, 344
ModifierMasks == {"NSShiftKeyMask", "NSControlKeyMask", "NSCommandKeyMask", "NSAlternateKeyMask"}

\* the NSEvent the loop reads: eventType, characters, keyCode, modifierFlags,
\* subtype, window (0 = nil, else the id get_window_id gives), and what the mouse,
\* scroll and pressure arms read, here at rest
NSEvent(type, characters, keyCode, flags, subtype, window) ==
    [type |-> type, characters |-> characters, keyCode |-> keyCode,
     modifierFlags |-> flags, subtype |-> subtype, window |-> window,
     locationInWindow |-> [x |-> 0, y |-> 0],
     hasPreciseScrollingDeltas |-> FALSE, scrollingDeltaX |-> 0, scrollingDeltaY |-> 0,
     phase |-> "NSEventPhaseNone", pressure |-> 0, stage |-> 0]

\* a mouse move or drag at (x, y)
MouseNSEvent(type, window, x, y) ==
    [NSEvent(type, <<>>, 0, {}, "-", window) EXCEPT !.locationInWindow = [x |-> x, y |-> y]]

\* a scroll-wheel event
ScrollNSEvent(window, precise, dx, dy, phase) ==
    [NSEvent("NSScrollWheel", <<>>, 0, {}, "-", window) EXCEPT
        !.hasPreciseScrollingDeltas = precise, !.scrollingDeltaX = dx,
        !.scrollingDeltaY = dy, !.phase = phase]

\* a pressure event
PressureNSEvent(window, pressure, stage) ==
    [NSEvent("NSEventTypePressure", <<>>, 0, {}, "-", window) EXCEPT
        !.pressure = pressure, !.stage = stage]

\* the event types of the mouse-moved arm (lines 367-370)
MouseMoveTypes ==
    {"NSMouseMoved", "NSLeftMouseDragged", "NSOtherMouseDragged", "NSRightMouseDragged"}

\* appkit::NSEventPhase
NSEventPhases ==
    {"NSEventPhaseNone", "NSEventPhaseBegan", "NSEventPhaseStationary", "NSEventPhaseChanged",
     "NSEventPhaseEnded", "NSEventPhaseCancelled", "NSEventPhaseMayBegin"}

\* a registered window: its id, whether the system reports it as the key window,
\* its hidpi factor, where its frame starts on the screen, where its view starts
\* in the window, and the height of the view's frame
Window(id, is_key, hidpi_factor, frame_x, frame_y, view_x, view_y, height) ==
    [id |-> id, isKeyWindow |-> is_key, hidpi_factor |-> hidpi_factor,
     frame |-> [x |-> frame_x, y |-> frame_y], view |-> [x |-> view_x, y |-> view_y],
     height |-> height]

\* the event interrupt() builds (lines 203-214)
WakeEvent == NSEvent("NSApplicationDefined", <<>>, 0, {}, "NSApplicationActivatedEventType", 0)

\* the native events the system posts in this model: a key press with text "a"
\* (two normalized events), a shift flags change (one or none) and the
\* undocumented type-21 event (none)
NativeAlphabet ==
    { NSEvent("NSKeyDown", <<"a">>, 0, {}, "-", 1),
      NSEvent("NSFlagsChanged", <<>>, 56, {"NSShiftKeyMask"}, "-", 1),
      NSEvent("Type21", <<>>, 0, {}, "-", 1) }

(* ------------------------- normalized events --------------------------- *)

\* Option<T>: None is the empty sequence, Some(x) a sequence of one
None == <<>>
Some(x) == <<x>>

\* events::WindowEvent, one record shape for every variant
Parameterless(kind) ==
    [kind |-> kind, state |-> "-", code |-> 0, key |-> "-", ch |-> "-",
     x |-> 0, y |-> 0, delta |-> "-", phase |-> "-"]
ReceivedCharacter(c) == [Parameterless("ReceivedCharacter") EXCEPT !.ch = c]
KeyboardInput(state, code, vkey) ==
    [Parameterless("KeyboardInput") EXCEPT !.state = state, !.code = code, !.key = vkey]
Awakened == Parameterless("Awakened")
MouseInput(state, button) ==
    [Parameterless("MouseInput") EXCEPT !.state = state, !.key = button]
MouseMoved(x, y) == [Parameterless("MouseMoved") EXCEPT !.x = x, !.y = y]
\* delta is "PixelDelta" or "LineDelta", (x, y) its two components
MouseWheel(delta, x, y, phase) ==
    [Parameterless("MouseWheel") EXCEPT !.delta = delta, !.x = x, !.y = y, !.phase = phase]
\* x is the pressure, y the stage
TouchpadPressure(pressure, stage) ==
    [Parameterless("TouchpadPressure") EXCEPT !.x = pressure, !.y = stage]

\* the into_event closure (lines 249-252)
into_event(window_id, window_event) == [window_id |-> window_id, event |-> window_event]

\* the match of to_virtual_key_code, entry code+1; "None" where the match falls to `_`
KeyTable ==
  <<
     "A", "S", "D", "F", "H", "G", "Z", "X",
     "C", "V", "None", "B", "Q", "W", "E", "R",
     "Y", "T", "Key1", "Key2", "Key3", "Key4", "Key6", "Key5",
     "Equals", "Key9", "Key7", "Minus", "Key8", "Key0", "RBracket", "O",
     "U", "LBracket", "I", "P", "Return", "L", "J", "Apostrophe",
     "K", "Semicolon", "Backslash", "Comma", "Slash", "N", "M", "Period",
     "Tab", "Space", "Grave", "Back", "None", "Escape", "RWin", "LWin",
     "LShift", "None", "None", "LControl", "RShift", "None", "RControl", "None",
     "None", "Decimal", "None", "Multiply", "None", "Add", "None", "Numlock",
     "None", "VolumeUp", "VolumeDown", "Divide", "NumpadEnter", "None", "Subtract", "None",
     "None", "NumpadEquals", "Numpad0", "Numpad1", "Numpad2", "Numpad3", "Numpad4", "Numpad5",
     "Numpad6", "Numpad7", "None", "Numpad8", "Numpad9", "None", "None", "None",
     "F5", "F6", "F7", "F3", "F8", "F9", "None", "F11",
     "None", "F13", "None", "F14", "None", "F10", "None", "F12",
     "None", "F15", "Insert", "Home", "PageUp", "Delete", "F4", "End",
     "F2", "PageDown", "F1", "Left", "Right", "Down", "Up", "None"
  >>

\* the table read one entry too low
to_virtual_key_code_off_by_one(code) ==
    IF code \in 1..127 THEN KeyTable[code] ELSE "None"

to_virtual_key_code(code) ==
    IF code \in 0..127 THEN KeyTable[code + 1] ELSE "None"

\* `NSEvent::keyCode(ns_event) as u8`
AsU8(code) == code % 256

\* level-triggered: Pressed whenever the mask is set, whatever was tracked
modifier_event_by_level(event, keymask, key, key_pressed) ==
    IF keymask \in event.modifierFlags
    THEN Some(KeyboardInput("Pressed", AsU8(event.keyCode), key))
    ELSE IF key_pressed
    THEN Some(KeyboardInput("Released", AsU8(event.keyCode), key))
    ELSE None

\* the local fn modifier_event (lines 293-313): Some(window event) or None
modifier_event(event, keymask, key, key_pressed) ==
    IF ~key_pressed /\ keymask \in event.modifierFlags
    THEN Some(KeyboardInput("Pressed", AsU8(event.keyCode), key))
    ELSE IF key_pressed /\ keymask \notin event.modifierFlags
    THEN Some(KeyboardInput("Released", AsU8(event.keyCode), key))
    ELSE None

\* Modifiers as constructed by EventsLoop::new
NoModifiers ==
    [shift_pressed |-> FALSE, ctrl_pressed |-> FALSE, win_pressed |-> FALSE, alt_pressed |-> FALSE]

\* the four `if let Some(window_event) = modifier_event(..)` blocks in order:
\* each flips its tracked bit and pushes its event when there is one
FlagsChanged(ns_event, window_id, mods) ==
    LET s == modifier_event(ns_event, "NSShiftKeyMask", "LShift", mods.shift_pressed)
        c == modifier_event(ns_event, "NSControlKeyMask", "LControl", mods.ctrl_pressed)
        w == modifier_event(ns_event, "NSCommandKeyMask", "LWin", mods.win_pressed)
        a == modifier_event(ns_event, "NSAlternateKeyMask", "LAlt", mods.alt_pressed)
        ev(o) == IF o = None THEN <<>> ELSE <<into_event(window_id, o[1])>>
    IN  [events |-> ev(s) \o ev(c) \o ev(w) \o ev(a),
         modifiers |-> [shift_pressed |-> IF s = None THEN mods.shift_pressed ELSE ~mods.shift_pressed,
                        ctrl_pressed  |-> IF c = None THEN mods.ctrl_pressed ELSE ~mods.ctrl_pressed,
                        win_pressed   |-> IF w = None THEN mods.win_pressed ELSE ~mods.win_pressed,
                        alt_pressed   |-> IF a = None THEN mods.alt_pressed ELSE ~mods.alt_pressed]]

\* the KeyboardInput pushed first: the characters follow the key event
KeyDownEventsKeyFirst(ns_event, window_id) ==
    <<into_event(window_id,
                 KeyboardInput("Pressed", AsU8(ns_event.keyCode),
                               to_virtual_key_code(ns_event.keyCode)))>>
    \o [i \in 1..Len(ns_event.characters) |->
          into_event(window_id, ReceivedCharacter(ns_event.characters[i]))]

\* the NSKeyDown arm: one ReceivedCharacter per char, then the KeyboardInput
KeyDownEvents(ns_event, window_id) ==
    [i \in 1..Len(ns_event.characters) |->
        into_event(window_id, ReceivedCharacter(ns_event.characters[i]))]
    \o <<into_event(window_id,
                    KeyboardInput("Pressed", AsU8(ns_event.keyCode),
                                  to_virtual_key_code(ns_event.keyCode)))>>

\* pop_back in place of pop_front: the translator returns the last event built
PopBack(events) == IF events = <<>> THEN None ELSE Some(events[Len(events)])

\* `let event = events.pop_front()`: what the translator returns
PopFront(events) == IF events = <<>> THEN None ELSE Some(Head(events))
\* the returned event is cloned instead of popped: everything is queued
RemainingAll(events) == events

\* what is left in `events` for `pending_events.extend(events.into_iter())`
Remaining(events) == IF events = <<>> THEN <<>> ELSE Tail(events)

\* Awakened for an application-defined event of any subtype
ApplicationDefinedAnySubtype(ns_event, window_id) ==
    <<into_event(window_id, Awakened)>>

\* the NSApplicationDefined arm (lines 430-435): Awakened for the subtype
\* interrupt() posts, nothing for another
ApplicationDefined(ns_event, window_id) ==
    IF ns_event.subtype = "NSApplicationActivatedEventType"
    THEN <<into_event(window_id, Awakened)>>
    ELSE <<>>

\* the arms of `match event_type` that build exactly one event from the type alone
SingleEvent(ns_event, window_id) ==
    CASE ns_event.type = "NSKeyUp" ->
           <<into_event(window_id, KeyboardInput("Released", AsU8(ns_event.keyCode),
                                                 to_virtual_key_code(ns_event.keyCode)))>>
      [] ns_event.type = "NSLeftMouseDown"  -> <<into_event(window_id, MouseInput("Pressed", "Left"))>>
      [] ns_event.type = "NSLeftMouseUp"    -> <<into_event(window_id, MouseInput("Released", "Left"))>>
      [] ns_event.type = "NSRightMouseDown" -> <<into_event(window_id, MouseInput("Pressed", "Right"))>>
      [] ns_event.type = "NSRightMouseUp"   -> <<into_event(window_id, MouseInput("Released", "Right"))>>
      [] ns_event.type = "NSOtherMouseDown" -> <<into_event(window_id, MouseInput("Pressed", "Middle"))>>
      [] ns_event.type = "NSOtherMouseUp"   -> <<into_event(window_id, MouseInput("Released", "Middle"))>>
      [] ns_event.type = "NSMouseEntered"   -> <<into_event(window_id, Parameterless("MouseEntered"))>>
      [] ns_event.type = "NSMouseExited"    -> <<into_event(window_id, Parameterless("MouseLeft"))>>
      [] ns_event.type = "NSApplicationDefined" -> ApplicationDefined(ns_event, window_id)
      [] OTHER -> <<>>

\* Iterator::find over the registry, given the positions that satisfy the
\* closure: Some(the first of them) or None
Find(ws, hits) ==
    IF hits = {} THEN None ELSE Some(ws[CHOOSE i \in hits : \A j \in hits : i <= j])

\* `windows.iter().find(|window| window_id == window.id())` (line 240)
maybe_window(ws, window_id) ==
    Find(ws, {i \in 1..Len(ws) : window_id = ws[i].id})

\* the closure of lines 254-258: the first registered window that is the key window
maybe_key_window(ws) ==
    Find(ws, {i \in 1..Len(ws) : ws[i].isKeyWindow})

\* no fallback: the option as it is
or_else_nothing(option, other) == option

\* Option::or_else
or_else(option, other) == IF option # None THEN option ELSE other

\* NSWindow convertRectFromScreen_ on a rectangle of size zero: its origin, from
\* screen coordinates to the window's
convertRectFromScreen_(window, point) ==
    [x |-> point.x - window.frame.x, y |-> point.y - window.frame.y]

\* NSView convertPoint_fromView_(.., nil): from window coordinates to the view's
convertPoint_fromView_(window, point) ==
    [x |-> point.x - window.view.x, y |-> point.y - window.view.y]

\* `as i32` of a float with an integral value: the value, saturated
AsI32(v) ==
    IF v > 2147483647 THEN 2147483647 ELSE IF v < -2147483647 - 1 THEN -2147483647 - 1 ELSE v

\* the mouse-moved arm (lines 367-396)
MouseMovedEvents(ns_event, ws) ==
    LET resolved == or_else(maybe_window(ws, ns_event.window), maybe_key_window(ws))
    IN  IF resolved = None
        THEN <<>>
        ELSE LET window == resolved[1]
                 window_point == ns_event.locationInWindow
                 view_point ==
                     IF ns_event.window = 0
                     THEN convertPoint_fromView_(window, convertRectFromScreen_(window, window_point))
                     ELSE convertPoint_fromView_(window, window_point)
                 scale_factor == window.hidpi_factor
                 x == AsI32(scale_factor * view_point.x)
                 y == AsI32(scale_factor * (window.height - view_point.y))
             IN  <<[window_id |-> window.id, event |-> MouseMoved(x, y)]>>

\* the may-begin phase left to the `_` arm
TouchPhaseBeganOnly(phase) ==
    CASE phase = "NSEventPhaseBegan" -> "Started"
      [] phase = "NSEventPhaseEnded" -> "Ended"
      [] OTHER -> "Moved"

\* `match ns_event.phase()` (lines 414-418)
TouchPhase(phase) ==
    CASE phase \in {"NSEventPhaseMayBegin", "NSEventPhaseBegan"} -> "Started"
      [] phase = "NSEventPhaseEnded" -> "Ended"
      [] OTHER -> "Moved"

\* the delta variant chosen at lines 407-413
ScrollDelta(precise) == IF precise THEN "PixelDelta" ELSE "LineDelta"

\* the scroll-wheel arm (lines 398-421)
ScrollWheelEvents(ns_event, ws) ==
    LET owner == maybe_window(ws, ns_event.window)
    IN  IF owner = None
        THEN <<>>
        ELSE LET window == owner[1]
                 scale_factor == window.hidpi_factor
             IN  <<into_event(ns_event.window,
                              MouseWheel(ScrollDelta(ns_event.hasPreciseScrollingDeltas),
                                         scale_factor * ns_event.scrollingDeltaX,
                                         scale_factor * ns_event.scrollingDeltaY,
                                         TouchPhase(ns_event.phase)))>>

\* the pressure arm (lines 423-428)
PressureEvents(ns_event) ==
    <<into_event(ns_event.window, TouchpadPressure(ns_event.pressure, ns_event.stage))>>

\* sendEvent_ called without the match on the type: key presses are passed too
ForwardsKeyDownToo(ns) ==
    ns # None /\ ns[1].type # "Type21"

\* is the native event passed to NSApp.sendEvent_ (lines 244-247)?  Not when the
\* translator returned before (nil, type 21), and not a key press
Forwards(ns) ==
    ns # None /\ ns[1].type # "Type21" /\ ns[1].type # "NSKeyDown"

\* ns_event_to_event as a function of the native event, the modifier state and
\* the window registry: the events built, in order, and the modifier state left
\* behind
Translation(ns, mods, ws) ==
    IF ns = None \/ ns[1].type = "Type21"
    THEN [events |-> <<>>, modifiers |-> mods]
    ELSE LET e == ns[1]
             window_id == e.window
         IN  CASE e.type = "NSKeyDown" ->
                    [events |-> KeyDownEvents(e, window_id), modifiers |-> mods]
               [] e.type = "NSFlagsChanged" -> FlagsChanged(e, window_id, mods)
               [] e.type \in MouseMoveTypes ->
                    [events |-> MouseMovedEvents(e, ws), modifiers |-> mods]
               [] e.type = "NSScrollWheel" ->
                    [events |-> ScrollWheelEvents(e, ws), modifiers |-> mods]
               [] e.type = "NSEventTypePressure" ->
                    [events |-> PressureEvents(e), modifiers |-> mods]
               [] OTHER -> [events |-> SingleEvent(e, window_id), modifiers |-> mods]

(* --------------------------- the main thread ---------------------------- *)

Mutexes == {"user_callback", "pending_events", "windows", "modifiers"}

\* one poll_events / run_forever invocation: its position, its locals, and
\* (history) what it did so far
Frame(kind, id) ==
    [kind      |-> kind,      \* "poll_events" or "run_forever"
     id        |-> id,        \* the identity of the `callback` argument
     pc        |-> "store",
     ns_event  |-> None,      \* the native event last fetched (None = nil)
     event     |-> None,      \* the event about to be passed to call_with_event
     drained   |-> FALSE,     \* inside the body of the `while let` over pending_events
     callback  |-> 0,         \* the local `callback` of call_with_event (0 = not in it)
     out       |-> <<>>,      \* history: the events the last translation built
     calls     |-> 0,         \* history: callback invocations issued
     fetches   |-> 0,         \* history: native fetches made
     nonnil    |-> 0,         \* history: native fetches that returned an event
     reads     |-> 0,         \* history: reads of the interrupt flag
     set_since |-> FALSE,     \* history: the flag was set to true after entry
     woken     |-> FALSE]     \* history: interrupt() was called while blocked in the fetch

Depth == Len(stack)
Top == stack[Depth]
At(pc) == status = "ok" /\ Depth > 0 /\ Top.pc = pc

\* the mutexes the next step of an invocation locks
Needs(f) ==
    CASE f.pc \in {"store", "call", "callback", "drop"} -> {"user_callback"}
      [] f.pc = "drain" -> {"pending_events"}
      [] f.pc = "translate" ->
           IF f.ns_event = None \/ f.ns_event[1].type = "Type21" THEN {}
           ELSE IF f.ns_event[1].type = "NSKeyDown" THEN {"windows", "pending_events"}
           ELSE IF f.ns_event[1].type = "NSFlagsChanged"
                THEN {"windows", "modifiers", "pending_events"}
           ELSE {"windows"}
      [] OTHER -> {}

Free == \A l \in Needs(Top) : held[l] = 0

\* the guards outlive the step: the mutexes stay locked by invocation d
KeepGuards(h, locks, d) == [l \in Mutexes |-> IF l \in locks THEN d ELSE h[l]]

\* a MutexGuard that is a temporary of one statement (line 72) or a local of
\* ns_event_to_event (lines 239, 291) is dropped at the end of the statement or
\* at the return: the mutexes invocation d locked in the step are free after it
DropGuards(h, locks, d) == [l \in Mutexes |-> IF l \in locks THEN 0 ELSE h[l]]

\* no interrupt() call has just completed
NoRun == [n |-> 0, open |-> FALSE, interrupted |-> FALSE, native |-> <<>>]

\* entry of a loop method on the main thread (the isMainThread test passes),
\* from idle or from inside a running user callback
Enter(kind) ==
    /\ status = "ok"
    /\ IF Depth = 0 THEN TRUE ELSE Top.pc = "callback"
    /\ Depth < MaxDepth
    /\ budget.entries < MaxEntries
    /\ stack' = Append(stack, Frame(kind, Depth + 1))
    /\ nested' = (nested \/ Depth > 0)
    /\ budget' = [budget EXCEPT !.entries = @ + 1]
    /\ run' = NoRun

poll_events ==
    /\ Enter("poll_events")
    /\ UNCHANGED <<windows, user_callback, pending_events, modifiers, interrupted, native, held,
                   status, ipc, forwarded, produced, delivered>>

\* line 151: the flag is cleared first
run_forever ==
    /\ Enter("run_forever")
    /\ interrupted' = FALSE
    /\ UNCHANGED <<windows, user_callback, pending_events, modifiers, native, held,
                   status, ipc, forwarded, produced, delivered>>

\* a take that leaves the pointer in the mutex
TakeLeavesPointer(slot) == slot

\* `Option::take` (lines 72 and 81): what is left in the mutex
Take(slot) == 0

\* call_with_event without its last line: the pointer is not put back
PutBackNothing(callback) == 0

\* the callback of the outermost invocation is put back, whoever took one
PutBackOutermost(callback) == 1

\* line 74: `*self.mutex.lock().unwrap() = Some(callback)`
PutBack(callback) == callback

\* the slot is written only when it is empty
StoreIfEmpty(slot, callback) == IF slot = 0 THEN callback ELSE slot

\* line 59: `*self.mutex.lock().unwrap() = Some(trait_object_ptr)`, whatever
\* the slot holds
Store(slot, callback) == callback

\* UserCallback::store
store ==
    /\ At("store") /\ Free
    /\ user_callback' = Store(user_callback, Top.id)
    /\ stack' = [stack EXCEPT ![Depth].pc = "drain"]
    /\ run' = NoRun
    /\ UNCHANGED <<windows, pending_events, modifiers, interrupted, native, held, status, ipc,
                   forwarded, produced, delivered, budget, nested>>

\* `while let Some(event) = self.pending_events.lock().unwrap().pop_front()`:
\* the guard is a temporary of the scrutinee, so it lives until the end of the
\* loop body and the mutex stays locked while the event is dispatched
drain ==
    /\ At("drain") /\ Free
    /\ IF pending_events = <<>>
       THEN /\ stack' = [stack EXCEPT ![Depth].pc = "fetch"]
            /\ UNCHANGED <<pending_events, held>>
       ELSE /\ stack' = [stack EXCEPT ![Depth].pc = "call",
                                      ![Depth].event = Some(Head(pending_events)),
                                      ![Depth].drained = TRUE]
            /\ pending_events' = Tail(pending_events)
            /\ held' = [held EXCEPT !["pending_events"] = Depth]
    /\ run' = NoRun
    /\ UNCHANGED <<windows, user_callback, modifiers, interrupted, native, status, ipc,
                   forwarded, produced, delivered, budget, nested>>

\* nextEventMatchingMask_untilDate_inMode_dequeue_: distantPast returns nil on
\* an empty queue, distantFuture blocks until there is an event
fetch ==
    /\ At("fetch")
    /\ Top.kind = "run_forever" => native # <<>>
    /\ stack' = [stack EXCEPT ![Depth].pc = "translate",
                              ![Depth].ns_event = IF native = <<>> THEN None ELSE Some(Head(native)),
                              ![Depth].fetches = @ + 1,
                              ![Depth].nonnil = IF native = <<>> THEN @ ELSE @ + 1]
    /\ native' = IF native = <<>> THEN native ELSE Tail(native)
    /\ run' = NoRun
    /\ UNCHANGED <<windows, user_callback, pending_events, modifiers, interrupted, held, status, ipc,
                   forwarded, produced, delivered, budget, nested>>

\* `None => continue` in place of the break: poll_events fetches again
AfterTranslateRetry(kind, event) ==
    IF event # None THEN "call"
    ELSE IF kind = "poll_events" THEN "drain" ELSE "check"

\* where the loop goes with the translator's result: poll_events breaks on
\* None (line 140), run_forever goes on to read the flag
AfterTranslate(kind, event) ==
    IF event # None THEN "call"
    ELSE IF kind = "poll_events" THEN "drop" ELSE "check"

\* ns_event_to_event and the `match event` / `if let Some(event)` after it
translate ==
    /\ At("translate") /\ Free
    /\ LET t == Translation(Top.ns_event, modifiers, windows)
           event == PopFront(t.events)
       IN  /\ pending_events' = pending_events \o Remaining(t.events)
           /\ modifiers' = t.modifiers
           /\ produced' = produced \o t.events
           /\ forwarded' = IF Forwards(Top.ns_event)
                           THEN Append(forwarded, Top.ns_event[1]) ELSE forwarded
           /\ stack' = [stack EXCEPT ![Depth].pc = AfterTranslate(Top.kind, event),
                                     ![Depth].event = event,
                                     ![Depth].out = t.events]
    /\ held' = DropGuards(held, Needs(Top), Depth)
    /\ run' = NoRun
    /\ UNCHANGED <<windows, user_callback, interrupted, native, status, ipc,
                   delivered, budget, nested>>

\* call_with_event, line 72 and the call of line 73: take().unwrap() panics on None
call_with_event ==
    /\ At("call") /\ Free
    /\ IF user_callback = 0
       THEN /\ status' = "unwrap_none"
            /\ UNCHANGED <<user_callback, stack, delivered, held>>
       ELSE /\ user_callback' = Take(user_callback)
            /\ stack' = [stack EXCEPT ![Depth].pc = "callback",
                                      ![Depth].callback = user_callback,
                                      ![Depth].event = None,
                                      ![Depth].calls = @ + 1]
            /\ delivered' = Append(delivered, Top.event[1])
            /\ held' = DropGuards(held, {"user_callback"}, Depth)
            /\ UNCHANGED status
    /\ run' = NoRun
    /\ UNCHANGED <<windows, pending_events, modifiers, interrupted, native, ipc,
                   forwarded, produced, budget, nested>>

\* where the loop goes after a dispatch
AfterCall(f) ==
    IF f.drained \/ f.kind = "poll_events" THEN "drain" ELSE "check"

\* the user callback returns; line 74 puts the pointer back; at the end of a
\* `while let` body the pending_events guard is dropped
callback_return ==
    /\ At("callback") /\ Free
    /\ user_callback' = PutBack(Top.callback)
    /\ stack' = [stack EXCEPT ![Depth].pc = AfterCall(Top),
                              ![Depth].callback = 0,
                              ![Depth].drained = FALSE]
    /\ held' = IF Top.drained THEN [held EXCEPT !["pending_events"] = 0] ELSE held
    /\ run' = NoRun
    /\ UNCHANGED <<windows, pending_events, modifiers, interrupted, native, status, ipc,
                   forwarded, produced, delivered, budget, nested>>

\* a loop that breaks after every iteration, whatever the flag
AfterCheckAlways(flag) == "drop"

\* line 188: the loop breaks when the flag reads true
AfterCheck(flag) == IF flag THEN "drop" ELSE "drain"

\* lines 188-191
check_interrupted ==
    /\ At("check")
    /\ stack' = [stack EXCEPT ![Depth].pc = AfterCheck(interrupted),
                              ![Depth].reads = @ + 1,
                              ![Depth].woken = FALSE]
    /\ interrupted' = (IF interrupted THEN FALSE ELSE interrupted)
    /\ run' = NoRun
    /\ UNCHANGED <<windows, user_callback, pending_events, modifiers, native, held, status, ipc,
                   forwarded, produced, delivered, budget, nested>>

\* UserCallback::drop, then the method returns
drop ==
    /\ At("drop") /\ Free
    /\ user_callback' = Take(user_callback)
    /\ stack' = SubSeq(stack, 1, Depth - 1)
    /\ run' = NoRun
    /\ UNCHANGED <<windows, pending_events, modifiers, interrupted, native, held, status, ipc,
                   forwarded, produced, delivered, budget, nested>>

\* std::sync::Mutex::lock on a mutex the same thread already holds never
\* returns: it deadlocks or panics
relock ==
    /\ status = "ok" /\ Depth > 0
    /\ \E l \in Needs(Top) : held[l] # 0
    /\ \/ status' = "deadlock"
       \/ status' = "panic"
    /\ run' = NoRun
    /\ UNCHANGED <<windows, user_callback, pending_events, modifiers, interrupted, native, stack, held,
                   ipc, forwarded, produced, delivered, budget, nested>>

(* ------------------------------ interrupt ------------------------------- *)

\* history: every live invocation saw the flag set; one blocked in the fetch was
\* interrupted while blocked
Flagged(blocked) ==
    [i \in 1..Depth |->
        [stack[i] EXCEPT !.set_since = TRUE,
                         !.woken = @ \/ (blocked /\ i = Depth)]]

\* one more interrupt() call completed with no other step since the previous
\* one: the first of the run records the flag and the native queue it left
Completed(flag, queue) ==
    IF run.n = 0 THEN [n |-> 1, open |-> FALSE, interrupted |-> flag, native |-> queue]
    ELSE [run EXCEPT !.n = @ + 1, !.open = FALSE]

\* an interrupt that posts no second wake event while one is queued
PostEventOnce(queue) ==
    IF \E i \in 1..Len(queue) : queue[i] = WakeEvent THEN queue ELSE Append(queue, WakeEvent)

\* line 215: postEvent_atStart_(event, NO) appends the wake event
PostEvent(queue) == Append(queue, WakeEvent)

\* interrupt() called by the user callback, on the main thread
callback_interrupt ==
    /\ At("callback")
    /\ budget.interrupts < MaxInterrupts
    /\ interrupted' = TRUE
    /\ native' = PostEvent(native)
    /\ stack' = Flagged(FALSE)
    /\ budget' = [budget EXCEPT !.interrupts = @ + 1]
    /\ run' = Completed(TRUE, PostEvent(native))
    /\ UNCHANGED <<windows, user_callback, pending_events, modifiers, held, status, ipc,
                   forwarded, produced, delivered, nested>>

\* interrupt() on another thread, line 198
interrupt_store ==
    /\ ipc = "idle"
    /\ budget.interrupts < MaxInterrupts
    /\ interrupted' = TRUE
    /\ ipc' = "post"
    /\ stack' = Flagged(At("fetch") /\ Top.kind = "run_forever" /\ native = <<>>)
    /\ budget' = [budget EXCEPT !.interrupts = @ + 1]
    /\ run' = [run EXCEPT !.open = TRUE]
    /\ UNCHANGED <<windows, user_callback, pending_events, modifiers, native, held, status,
                   forwarded, produced, delivered, nested>>

\* interrupt() on another thread, line 215: postEvent_atStart_(event, NO)
interrupt_post ==
    /\ ipc = "post"
    /\ native' = PostEvent(native)
    /\ ipc' = "idle"
    /\ run' = IF run.open THEN Completed(interrupted, PostEvent(native)) ELSE NoRun
    /\ UNCHANGED <<windows, user_callback, pending_events, modifiers, interrupted, stack, held, status,
                   forwarded, produced, delivered, budget, nested>>

(* --------------------------- the environment ---------------------------- *)

\* the window server posts a native event
native_event_arrives ==
    /\ budget.arrivals < MaxArrivals
    /\ \E e \in NativeAlphabet : native' = Append(native, e)
    /\ budget' = [budget EXCEPT !.arrivals = @ + 1]
    /\ run' = NoRun
    /\ UNCHANGED <<windows, user_callback, pending_events, modifiers, interrupted, stack, held, status,
                   ipc, forwarded, produced, delivered, nested>>

\* poll_events called on a thread that is not the main thread: lines 109-111 panic
foreign_poll_events ==
    /\ run' = NoRun
    /\ UNCHANGED <<windows, user_callback, pending_events, modifiers, interrupted, native, stack, held,
                   status, ipc, forwarded, produced, delivered, budget, nested>>

\* run_forever called on a thread that is not the main thread: line 151 runs
\* before the test of lines 154-156 panics
foreign_run_forever ==
    /\ interrupted' = FALSE
    /\ run' = NoRun
    /\ UNCHANGED <<windows, user_callback, pending_events, modifiers, native, stack, held,
                   status, ipc, forwarded, produced, delivered, budget, nested>>

(* ---------------------------- specification ----------------------------- *)

\* EventsLoop::new, an empty native queue, nothing running
Init ==
    /\ user_callback = 0
    /\ pending_events = <<>>
    /\ modifiers = NoModifiers
    /\ interrupted = FALSE
    /\ windows = <<>>
    /\ native = <<>>
    /\ stack = <<>>
    /\ held = [l \in Mutexes |-> 0]
    /\ status = "ok"
    /\ ipc = "idle"
    /\ forwarded = <<>>
    /\ produced = <<>>
    /\ delivered = <<>>
    /\ budget = [entries |-> 0, arrivals |-> 0, interrupts |-> 0]
    /\ nested = FALSE
    /\ run = NoRun

Next ==
    \/ poll_events
    \/ run_forever
    \/ store
    \/ drain
    \/ fetch
    \/ translate
    \/ call_with_event
    \/ callback_return
    \/ check_interrupted
    \/ drop
    \/ relock
    \/ callback_interrupt
    \/ interrupt_store
    \/ interrupt_post
    \/ native_event_arrives

\* the loop used as documented: poll_events and run_forever on the main thread
\* only, interrupt from any thread
Spec == Init /\ [][Next]_vars

\* the same with poll_events / run_forever also called from other threads
NextAnyThread ==
    \/ Next
    \/ foreign_poll_events
    \/ foreign_run_forever

SpecAnyThread == Init /\ [][NextAnyThread]_vars

(* ------------------------ the translator at work ------------------------ *)

\* window registries: none; one key window of scale 2; a plain window and
\* behind it a key window of scale 1; one window that is not the key window
WindowRegistries ==
    { <<>>,
      <<Window(1, TRUE, 2, 100, 50, 0, 0, 40)>>,
      <<Window(1, FALSE, 2, 100, 50, 0, 0, 40), Window(2, TRUE, 1, 10, 20, 1, 2, 30)>>,
      <<Window(1, FALSE, 2, 100, 50, 0, 0, 40)>> }

\* the texts of a key press: none, one, two and three characters
KeyTexts == { <<>>, <<"a">>, <<"a", "b">>, <<"a", "b", "c">> }

\* the windows a native event names: nil, a registered id, an id never registered
EventWindows == {0, 1, 3}

\* flags-changed events, one per set of modifier masks
FlagsEvents ==
    { NSEvent("NSFlagsChanged", <<>>, 56, M, "-", 1) : M \in SUBSET ModifierMasks }

\* key releases for every scan code, key presses on a mapped and an unmapped code
KeyEvents ==
    { NSEvent("NSKeyUp", <<>>, code, {}, "-", 1) : code \in 0..127 }
    \cup { NSEvent("NSKeyDown", text, code, {}, "-", 1) : text \in KeyTexts, code \in {0, 10} }

\* mouse moves and drags at window point (5, 7)
MouseMoveEvents ==
    { MouseNSEvent(type, w, 5, 7) : type \in MouseMoveTypes, w \in EventWindows }

\* scrolls by (2, -3), in every phase, precise or not
ScrollEvents ==
    { ScrollNSEvent(w, precise, 2, -3, phase) :
        w \in EventWindows, precise \in BOOLEAN, phase \in NSEventPhases }

\* the other arms: buttons, entered / exited, pressure, application-defined with
\* the wake subtype and with another, the type-21 event, types with no arm
OtherEvents ==
    { NSEvent(type, <<>>, 0, {}, "-", 1) :
        type \in {"NSLeftMouseDown", "NSLeftMouseUp", "NSRightMouseDown", "NSRightMouseUp",
                  "NSOtherMouseDown", "NSOtherMouseUp", "NSMouseEntered", "NSMouseExited",
                  "Type21", "NSPeriodic", "NSAppKitDefined", "NSSystemDefined"} }
    \cup { PressureNSEvent(1, 3, 1), WakeEvent,
           NSEvent("NSApplicationDefined", <<>>, 0, {}, "NSWindowExposedEventType", 0) }

TranslatorAlphabet == FlagsEvents \cup KeyEvents \cup MouseMoveEvents \cup ScrollEvents \cup OtherEvents

\* what may be queued more than one deep: flags changes and a mouse move
RepeatedEvents == FlagsEvents \cup { MouseNSEvent("NSMouseMoved", 3, 5, 7) }

\* the native queues the translator is exercised on
NativeQueues ==
    {<<>>} \cup { <<e>> : e \in TranslatorAlphabet }
    \cup UNION { [1..n -> RepeatedEvents] : n \in 2..MaxSeq }

\* a loop invocation that has just installed its callback, in front of a native
\* queue and a window registry
InitTranslator ==
    /\ \E kind \in {"poll_events", "run_forever"} :
          stack = <<[Frame(kind, 1) EXCEPT !.pc = "drain"]>>
    /\ user_callback = 1
    /\ native \in NativeQueues
    /\ windows \in WindowRegistries
    /\ pending_events = <<>>
    /\ modifiers = NoModifiers
    /\ interrupted = FALSE
    /\ held = [l \in Mutexes |-> 0]
    /\ status = "ok"
    /\ ipc = "idle"
    /\ forwarded = <<>>
    /\ produced = <<>>
    /\ delivered = <<>>
    /\ budget = [entries |-> 1, arrivals |-> 0, interrupts |-> 0]
    /\ nested = FALSE
    /\ run = NoRun

\* the loop alone: no re-entry, no interrupt, no further arrival
NextTranslator ==
    \/ drain
    \/ fetch
    \/ translate
    \/ call_with_event
    \/ callback_return
    \/ check_interrupted
    \/ drop

SpecTranslator == InitTranslator /\ [][NextTranslator]_vars

(* ------------------------ UserCallback on its own ------------------------ *)

\* the events call_with_event is called with
CallEvents == { into_event(0, Awakened), into_event(1, Parameterless("MouseEntered")) }

\* UserCallback::store (lines 54-60) called by a new owner, whatever the slot holds
uc_store ==
    /\ status = "ok"
    /\ Depth < MaxDepth
    /\ budget.entries < MaxEntries
    /\ user_callback' = Store(user_callback, Depth + 1)
    /\ stack' = Append(stack, [Frame("poll_events", Depth + 1) EXCEPT !.pc = "drain"])
    /\ budget' = [budget EXCEPT !.entries = @ + 1]
    /\ UNCHANGED <<windows, pending_events, modifiers, interrupted, native, held, status, ipc,
                   forwarded, produced, delivered, nested, run>>

\* UserCallback::call_with_event (lines 71-75) with a callback that returns at once
uc_call_with_event ==
    /\ status = "ok"
    /\ Len(delivered) < MaxCalls
    /\ IF user_callback = 0
       THEN /\ status' = "unwrap_none"
            /\ UNCHANGED <<user_callback, delivered>>
       ELSE /\ \E e \in CallEvents : delivered' = Append(delivered, e)
            /\ user_callback' = PutBack(user_callback)
            /\ UNCHANGED status
    /\ UNCHANGED <<windows, pending_events, modifiers, interrupted, native, stack, held, ipc,
                   forwarded, produced, budget, nested, run>>

\* UserCallback::drop (lines 80-82) by the latest owner
uc_drop ==
    /\ status = "ok"
    /\ Depth > 0
    /\ user_callback' = Take(user_callback)
    /\ stack' = SubSeq(stack, 1, Depth - 1)
    /\ UNCHANGED <<windows, pending_events, modifiers, interrupted, native, held, status, ipc,
                   forwarded, produced, delivered, budget, nested, run>>

\* the three operations in any order, which the loop never does: it stores
\* only at the start of poll_events / run_forever
NextUserCallback ==
    \/ uc_store
    \/ uc_call_with_event
    \/ uc_drop

SpecUserCallback == Init /\ [][NextUserCallback]_vars

(* ------------------- run_forever racing with interrupt ------------------- *)

\* run_forever is called on the main thread from idle: line 151 is yet to run
run_forever_called ==
    /\ status = "ok"
    /\ Depth = 0
    /\ budget.entries < MaxEntries
    /\ stack' = <<[Frame("run_forever", 1) EXCEPT !.pc = "clear"]>>
    /\ budget' = [budget EXCEPT !.entries = @ + 1]
    /\ run' = NoRun
    /\ UNCHANGED <<windows, user_callback, pending_events, modifiers, interrupted, native, held,
                   status, ipc, forwarded, produced, delivered, nested>>

\* line 151: `self.interrupted.store(false, ..)`; the test of lines 154-156
\* passes on the main thread
run_forever_clear ==
    /\ At("clear")
    /\ interrupted' = FALSE
    /\ stack' = [stack EXCEPT ![Depth].pc = "store"]
    /\ run' = NoRun
    /\ UNCHANGED <<windows, user_callback, pending_events, modifiers, native, held,
                   status, ipc, forwarded, produced, delivered, budget, nested>>

\* one run_forever at a time, its callback returning without re-entering the
\* loop, and interrupt() on another thread, its two steps interleaved with
\* every step of run_forever from the call on
NextRace ==
    \/ run_forever_called
    \/ run_forever_clear
    \/ store
    \/ drain
    \/ fetch
    \/ translate
    \/ call_with_event
    \/ callback_return
    \/ check_interrupted
    \/ drop
    \/ interrupt_store
    \/ interrupt_post
    \/ native_event_arrives

SpecRace == Init /\ [][NextRace]_vars

(* --------------------------- poll_events alone --------------------------- *)

\* what the pending queue may hold when poll_events is called: what a
\* run_forever that returned on an interrupt left of a key press
PendingOnEntry ==
    { Remaining(KeyDownEvents(NSEvent("NSKeyDown", text, 0, {}, "-", 1), 1)) : text \in KeyTexts }

\* the native queues poll_events is called on: up to MaxSeq events, each a key
\* press with text, a shift flags change, the type-21 event, a wake event or a
\* mouse move over no window
PollQueues ==
    UNION { [1..n -> NativeAlphabet \cup {WakeEvent, MouseNSEvent("NSMouseMoved", 0, 5, 7)}] :
              n \in 0..MaxSeq }

\* poll_events has just been called from idle, in front of a native queue, with
\* two windows registered
InitPoll ==
    /\ stack = <<Frame("poll_events", 1)>>
    /\ user_callback = 0
    /\ native \in PollQueues
    /\ windows \in {ws \in WindowRegistries : Len(ws) = 2}
    /\ pending_events \in PendingOnEntry
    /\ modifiers = NoModifiers
    /\ interrupted = FALSE
    /\ held = [l \in Mutexes |-> 0]
    /\ status = "ok"
    /\ ipc = "idle"
    /\ forwarded = <<>>
    /\ produced = <<>>
    /\ delivered = <<>>
    /\ budget = [entries |-> 1, arrivals |-> 0, interrupts |-> 0]
    /\ nested = FALSE
    /\ run = NoRun

\* the steps of poll_events with a callback that returns without posting a
\* native event or re-entering the loop; nothing else posts one
NextPoll ==
    \/ store
    \/ drain
    \/ fetch
    \/ translate
    \/ call_with_event
    \/ callback_return
    \/ drop

\* the main thread keeps running: a step that can be taken is taken
SpecPoll == InitPoll /\ [][NextPoll]_vars /\ WF_vars(NextPoll)

(* ------------------------------- claims --------------------------------- *)

\* the event a loop holds between building or popping it and calling the callback
InFlight == IF Depth > 0 /\ Top.pc = "call" THEN Top.event ELSE <<>>

\* C1: call_with_event runs only while the callback slot is occupied: the
\* take().unwrap() of line 72 never finds None, nested invocations included.
C1_CallFindsCallback ==
    /\ status # "unwrap_none"
    /\ At("call") => user_callback # 0

\* C1: the outer invocation calls its callback again after an invocation
\* nested in an earlier callback has returned
C1_Witness ==
    /\ nested /\ Depth = 1
    /\ Top.pc = "callback" /\ Top.calls >= 2

\* C2: with no poll_events / run_forever invocation in progress the callback
\* slot is empty.
C2_SlotEmptyWhenIdle == Depth = 0 => user_callback = 0

\* C2: idle again after an outer invocation inside which a nested one ran
C2_Witness ==
    /\ Depth = 0 /\ nested /\ delivered # <<>> /\ status = "ok"

\* C3: a nested invocation started by a callback never blocks on a mutex the
\* outer invocation still holds (here: never stops in a second lock()).
C3_ReentryNeverBlocks == status \notin {"deadlock", "panic"}

\* C4: the events delivered to the callbacks are, in order, the events the
\* translator built from the native events in fetch order: what was delivered,
\* then the event in hand, then the pending queue, is the sequence built so
\* far, each event once.
C4_DeliveryOrder == delivered \o InFlight \o pending_events = produced

\* C4: two native events delivered across a nested invocation, nothing left
C4_Witness ==
    /\ nested /\ Len(delivered) >= 3 /\ delivered = produced
    /\ \E i \in 1..Len(delivered) : delivered[i].event.kind = "ReceivedCharacter"

\* C5: at every native fetch the pending queue is empty and everything built
\* so far was delivered; after a translation that built k >= 1 events the
\* loop holds the first and the pending queue holds exactly the k-1 others.
C5_PendingDrainedBeforeFetch ==
    /\ At("fetch") => pending_events = <<>> /\ delivered = produced
    /\ At("call") /\ ~Top.drained =>
          /\ Top.event \o pending_events = Top.out
          /\ Len(pending_events) = Len(Top.out) - 1

\* C5: a nested invocation about to fetch after draining what the outer
\* translation queued
C5_Witness ==
    /\ At("fetch") /\ Depth = 2
    /\ Len(stack[1].out) = 2 /\ Top.calls = 1 /\ Top.fetches = 0

\* C6: poll_events returns only when the non-blocking fetch found the native
\* queue empty (returned nil).
C6_PollReturnsOnEmptyQueue ==
    \A i \in 1..Depth :
        stack[i].kind = "poll_events" /\ stack[i].pc = "drop" => stack[i].ns_event = None

\* C7: a poll_events called from idle whose fetch finds the native queue empty
\* returns having called the callback zero times.
C7_EmptyPollCallsNothing ==
    Depth = 1 /\ Top.kind = "poll_events" /\ Top.pc = "drop" /\ Top.nonnil = 0
        => Top.calls = 0

\* C8: a run_forever that interrupt() was called on while it was blocked in
\* the fetch finds the flag set when it reads it at the end of that iteration,
\* and so returns.
C8_InterruptedWhileBlockedReturns ==
    \A i \in 1..Depth :
        stack[i].woken /\ stack[i].pc = "check" => interrupted

\* reads of the flag an invocation has made, from its fetches and its position
C9_ReadsDue(f) ==
    IF f.pc \in {"translate", "check"} \/ (f.pc \in {"call", "callback"} /\ ~f.drained)
    THEN f.fetches - 1
    ELSE f.fetches

\* C9: run_forever clears the flag on entry, has read it exactly once per
\* completed iteration, leaves its loop only by a read that finds the flag set
\* and then stores false, stays in the loop when the read finds it clear, and
\* so never returns unless the flag was set after its entry.
C9_FlagProtocol ==
    /\ [](\A i \in 1..Depth :
            stack[i].kind = "run_forever" =>
                /\ stack[i].reads = C9_ReadsDue(stack[i])
                /\ stack[i].pc = "drop" => stack[i].set_since)
    /\ [][/\ Depth' = Depth + 1 /\ stack'[Depth'].kind = "run_forever" => ~interrupted'
          /\ \A i \in 1..Depth :
                i <= Depth' /\ stack[i].kind = "run_forever" /\ stack'[i].pc # stack[i].pc =>
                    /\ stack'[i].pc = "drop" =>
                          stack[i].pc = "check" /\ interrupted /\ ~interrupted'
                    /\ stack[i].pc = "check" /\ ~interrupted => stack'[i].pc = "drain"]_vars

\* C9: a run_forever about to return after one iteration that read the flag
\* clear and a later one that read it set
C9_Witness ==
    \E i \in 1..Depth :
        stack[i].kind = "run_forever" /\ stack[i].pc = "drop" /\ stack[i].reads >= 2

\* C10 as stated: after two or more interrupt() calls in a row the flag and the
\* native queue are what the first call left.
C10_InterruptIdempotent ==
    run.n >= 2 => interrupted = run.interrupted /\ native = run.native

\* C10 amended: after n interrupt() calls in a row the flag is what the first
\* call left (true), and the native queue is what the first call left followed
\* by one more wake event per further call.
C10_InterruptFlagIdempotent ==
    run.n >= 1 =>
        /\ interrupted /\ interrupted = run.interrupted
        /\ native = run.native \o [i \in 1..(run.n - 1) |-> WakeEvent]

\* C10: two interrupt() calls in a row while a loop is running
C10_Witness == run.n = 2 /\ Depth > 0

\* C11: a poll_events or run_forever call made on a thread other than the
\* main thread leaves the interrupt flag, the pending queue, the modifier
\* state and the callback slot as they were
C11_ForeignCallChangesNothing ==
    [][(foreign_poll_events \/ foreign_run_forever)
        => UNCHANGED <<interrupted, pending_events, modifiers, user_callback>>]_vars

\* the innermost invocation has just come out of ns_event_to_event with a native
\* event of one of `types`: `out` holds what the translator built, and nothing
\* was dispatched or drained since
JustTranslated(types) ==
    /\ Depth > 0
    /\ \/ Top.pc = "call" /\ ~Top.drained
       \/ Top.pc \in {"check", "drop"} /\ Top.out = <<>>
    /\ Top.ns_event # None
    /\ Top.ns_event[1].type \in types

\* C12: a key press carrying n characters builds n ReceivedCharacter events in
\* character order and then one KeyboardInput (Pressed, the raw key code, the
\* key of the table); the translator returns the first of the n+1 and leaves
\* the other n, in order, in the pending queue (n = 0: the KeyboardInput is
\* returned and the queue stays empty)
C12_KeyDownSequence ==
    JustTranslated({"NSKeyDown"}) =>
        LET e == Top.ns_event[1]
            n == Len(e.characters)
        IN  /\ Len(Top.out) = n + 1
            /\ \A i \in 1..n :
                  Top.out[i] = [window_id |-> e.window,
                                event |-> ReceivedCharacter(e.characters[i])]
            /\ Top.out[n + 1] = [window_id |-> e.window,
                                 event |-> KeyboardInput("Pressed", e.keyCode,
                                                         KeyTable[e.keyCode + 1])]
            /\ Top.event = Some(Top.out[1])
            /\ pending_events = SubSeq(Top.out, 2, n + 1)

\* C12: a key press with three characters has been translated
C12_Witness ==
    /\ JustTranslated({"NSKeyDown"})
    /\ Len(Top.ns_event[1].characters) = 3
    /\ Len(pending_events) = 3
    /\ pending_events[3].event.kind = "KeyboardInput"

\* the scan codes of 0..127 with no arm in the match of to_virtual_key_code
\* (0x0a, 0x34, 0x39, 0x3a, 0x3d, 0x3f, 0x40, 0x42, 0x44, 0x46, 0x48, 0x4d, 0x4f,
\* 0x50, 0x5a, 0x5d, 0x5e, 0x5f, 0x66, 0x68, 0x6a, 0x6c, 0x6e, 0x70, 0x7f)
UnmappedScanCodes ==
    {10, 52, 57, 58, 61, 63, 64, 66, 68, 70, 72, 77, 79, 80, 90, 93, 94, 95,
     102, 104, 106, 108, 110, 112, 127}

\* C13: the key table gives a result for every scan code of 0..127, None exactly
\* for the unmapped ones; a key press or release builds exactly one
\* KeyboardInput, with the raw code of the native event and the key of the
\* table, None when the code is unmapped
C13_KeyTableTotal ==
    /\ \A code \in 0..127 :
          (to_virtual_key_code(code) = "None") <=> (code \in UnmappedScanCodes)
    /\ JustTranslated({"NSKeyDown", "NSKeyUp"}) =>
          LET e == Top.ns_event[1]
              keys == {i \in 1..Len(Top.out) : Top.out[i].event.kind = "KeyboardInput"}
          IN  /\ Cardinality(keys) = 1
              /\ \A i \in keys :
                    /\ Top.out[i].event.code = e.keyCode
                    /\ Top.out[i].event.state
                         = (IF e.type = "NSKeyDown" THEN "Pressed" ELSE "Released")
                    /\ (Top.out[i].event.key = "None") <=> (e.keyCode \in UnmappedScanCodes)

\* C13: a key release with the unmapped scan code 0x0a has been translated
C13_Witness ==
    /\ JustTranslated({"NSKeyUp"})
    /\ Top.ns_event[1].keyCode = 10
    /\ Top.event = Some(into_event(1, KeyboardInput("Released", 10, "None")))

\* the innermost invocation takes a native event of one of `types` through
\* ns_event_to_event in this step
TranslateStep(types) ==
    /\ Depth > 0
    /\ Top.pc = "translate"
    /\ Top.ns_event # None
    /\ Top.ns_event[1].type \in types
    /\ Len(stack') = Depth
    /\ stack'[Depth].pc # "translate"

\* the four tracked modifiers in the order the flags-changed arm tests them:
\* the mask, the key of the event, the tracked bit
TrackedModifiers ==
    << [mask |-> "NSShiftKeyMask",     key |-> "LShift",   pressed |-> modifiers.shift_pressed],
       [mask |-> "NSControlKeyMask",   key |-> "LControl", pressed |-> modifiers.ctrl_pressed],
       [mask |-> "NSCommandKeyMask",   key |-> "LWin",     pressed |-> modifiers.win_pressed],
       [mask |-> "NSAlternateKeyMask", key |-> "LAlt",     pressed |-> modifiers.alt_pressed] >>

\* one event per tracked modifier whose bit differs from the mask M, in that order
C14_Expected(e) ==
    LET differs(t) == t.pressed # (t.mask \in e.modifierFlags)
        changed == SelectSeq(TrackedModifiers, differs)
    IN  [i \in 1..Len(changed) |->
            [window_id |-> e.window,
             event |-> KeyboardInput(IF changed[i].mask \in e.modifierFlags
                                     THEN "Pressed" ELSE "Released",
                                     e.keyCode, changed[i].key)]]

\* C14: translating a flags-changed event with mask M leaves each of the four
\* tracked bits equal to its bit of M and builds exactly one event per modifier
\* whose tracked bit differed (Pressed if the bit of M is set, Released if
\* clear) in the order shift, control, meta, alt; the first is returned and the
\* others are appended to the pending queue; setting one bit and clearing it
\* again restores the tracked state and builds a press then a release
C14_FlagsChanged ==
    /\ [][TranslateStep({"NSFlagsChanged"}) =>
            LET e == Top.ns_event[1]
                expected == C14_Expected(e)
            IN  /\ modifiers' = [shift_pressed |-> "NSShiftKeyMask" \in e.modifierFlags,
                                 ctrl_pressed  |-> "NSControlKeyMask" \in e.modifierFlags,
                                 win_pressed   |-> "NSCommandKeyMask" \in e.modifierFlags,
                                 alt_pressed   |-> "NSAlternateKeyMask" \in e.modifierFlags]
                /\ stack'[Depth].out = expected
                /\ stack'[Depth].event = (IF expected = <<>> THEN None ELSE Some(expected[1]))
                /\ pending_events'
                     = pending_events \o (IF expected = <<>> THEN <<>> ELSE Tail(expected))
                /\ produced' = produced \o expected]_vars
    /\ [](/\ Len(forwarded) = 2
          /\ JustTranslated({"NSFlagsChanged"})
          /\ Top.fetches = 2
          /\ Cardinality(forwarded[1].modifierFlags) = 1
          /\ forwarded[2].modifierFlags = {}
          => /\ modifiers = NoModifiers
             /\ Len(produced) = 2
             /\ produced[1].event.state = "Pressed"
             /\ produced[2].event.state = "Released"
             /\ produced[1].event.key = produced[2].event.key)

\* C14: shift and alt were tracked as pressed, and a flags change with control
\* and alt set has been translated: release of shift, then press of control
C14_Witness ==
    /\ JustTranslated({"NSFlagsChanged"})
    /\ Top.fetches = 2
    /\ Len(forwarded) = 2
    /\ forwarded[1].modifierFlags = {"NSShiftKeyMask", "NSAlternateKeyMask"}
    /\ forwarded[2].modifierFlags = {"NSControlKeyMask", "NSAlternateKeyMask"}
    /\ Top.event = Some(into_event(1, KeyboardInput("Released", 56, "LShift")))
    /\ pending_events = <<into_event(1, KeyboardInput("Pressed", 56, "LControl"))>>

\* the registered windows a mouse move or drag resolves to: the one owning the
\* event or, when there is none, the registered key windows
C18_Resolved(e) ==
    LET owners == {i \in 1..Len(windows) : windows[i].id = e.window}
        keys   == {i \in 1..Len(windows) : windows[i].isKeyWindow}
    IN  IF owners # {} THEN {windows[i].id : i \in owners} ELSE {windows[i].id : i \in keys}

\* C18: a mouse move or drag resolves to the registered window owning the
\* event, else to the registered key window, else to none; resolved, exactly one
\* MouseMoved event tagged with the id of that window is built and returned;
\* unresolved, no event is built and the pending queue and the modifier state
\* stay as they are
C18_MouseMoved ==
    [][TranslateStep(MouseMoveTypes) =>
         LET e == Top.ns_event[1]
             out == stack'[Depth].out
         IN  /\ UNCHANGED <<pending_events, modifiers, windows>>
             /\ IF C18_Resolved(e) = {}
                THEN /\ out = <<>>
                     /\ stack'[Depth].event = None
                     /\ produced' = produced
                ELSE /\ Len(out) = 1
                     /\ out[1].event.kind = "MouseMoved"
                     /\ C18_Resolved(e) = {out[1].window_id}
                     /\ stack'[Depth].event = Some(out[1])
                     /\ produced' = Append(produced, out[1])]_vars

\* C18: a move over no window (nil) was resolved to the key window, the second
\* of the registry, and tagged with its id
C18_Witness ==
    /\ JustTranslated(MouseMoveTypes)
    /\ Top.ns_event[1].window = 0
    /\ Len(windows) = 2
    /\ Top.event # None
    /\ Top.event[1].window_id = 2
    /\ Top.event[1].event.kind = "MouseMoved"

\* C19: a scroll-wheel event is routed by the window it names only: nothing is
\* built when that window is not registered, whatever the key window; else
\* exactly one MouseWheel event is built, a pixel delta when the native event
\* reports precise deltas and a line delta when not, both axes multiplied by
\* the scale factor of the window, with phase Started for may-begin and began,
\* Ended for ended, Moved for every other phase
C19_ScrollWheel ==
    JustTranslated({"NSScrollWheel"}) =>
        LET e == Top.ns_event[1]
            owners == {i \in 1..Len(windows) : windows[i].id = e.window}
        IN  IF owners = {}
            THEN Top.out = <<>> /\ Top.event = None /\ pending_events = <<>>
            ELSE \A i \in owners :
                   /\ Len(Top.out) = 1
                   /\ Top.event = Some(Top.out[1])
                   /\ pending_events = <<>>
                   /\ Top.out[1].window_id = windows[i].id
                   /\ Top.out[1].event.kind = "MouseWheel"
                   /\ Top.out[1].event.delta
                        = (IF e.hasPreciseScrollingDeltas THEN "PixelDelta" ELSE "LineDelta")
                   /\ Top.out[1].event.x = windows[i].hidpi_factor * e.scrollingDeltaX
                   /\ Top.out[1].event.y = windows[i].hidpi_factor * e.scrollingDeltaY
                   /\ Top.out[1].event.phase
                        = (IF e.phase \in {"NSEventPhaseMayBegin", "NSEventPhaseBegan"}
                           THEN "Started"
                           ELSE IF e.phase = "NSEventPhaseEnded" THEN "Ended" ELSE "Moved")

\* C19: a precise scroll by (2, -3) in phase may-begin over a window of scale 2
\* gave a pixel delta of (4, -6), Started
C19_Witness ==
    /\ JustTranslated({"NSScrollWheel"})
    /\ Top.ns_event[1].phase = "NSEventPhaseMayBegin"
    /\ Top.event = Some(into_event(1, MouseWheel("PixelDelta", 4, -6, "Started")))

\* the types of the native events the translator is exercised on
C20_Types == {e.type : e \in TranslatorAlphabet}

\* C20: every native event handed to the translator whose type is not key-down
\* is passed exactly once to the native application object, whether or not an
\* event is built from it; a key-down never is
C20_ForwardsAllButKeyDown ==
    [][TranslateStep(C20_Types) =>
         forwarded' = IF Top.ns_event[1].type # "NSKeyDown"
                      THEN Append(forwarded, Top.ns_event[1])
                      ELSE forwarded]_vars

\* C20 (amended): every native event handed to the translator whose type is
\* neither key-down nor the filtered type 21 is passed exactly once to the
\* native application object, whether or not an event is built from it; a
\* key-down and a type-21 event never are, and nothing is passed outside the
\* translator
C20_ForwardsAllButKeyDownAndType21 ==
    /\ [][TranslateStep(C20_Types) =>
            forwarded' = IF Top.ns_event[1].type \notin {"NSKeyDown", "Type21"}
                         THEN Append(forwarded, Top.ns_event[1])
                         ELSE forwarded]_vars
    /\ [][forwarded' # forwarded => TranslateStep(C20_Types)]_vars

\* C20: an event of a type with no arm gave no event and was passed on
C20_Witness ==
    /\ JustTranslated({"NSPeriodic"})
    /\ Top.out = <<>>
    /\ forwarded = <<Top.ns_event[1]>>

\* C15: call_with_event takes the stored reference out before it runs the
\* callback: while the callback body of an invocation runs the slot never holds
\* that invocation's reference, it is empty unless a re-entered loop has its own
\* installed, and the local of call_with_event holds the reference taken; when
\* the callback returns that same reference, the invocation's own, is put back,
\* also after the callback re-entered poll_events / run_forever
C15_TakeAndRestore ==
    /\ [](\A i \in 1..Depth :
            stack[i].pc = "callback" =>
                /\ stack[i].callback = stack[i].id
                /\ user_callback # stack[i].id
                /\ i = Depth => user_callback = 0)
    /\ [][(/\ Depth > 0
           /\ Top.pc = "callback"
           /\ Len(stack') = Depth
           /\ stack'[Depth].pc # "callback") => user_callback' = Top.id]_vars

\* C15: the callback of the outer invocation re-entered the loop, the nested
\* invocation installed and uninstalled its own callback, the outer callback
\* returned and the outer reference is back in the slot
C15_Witness ==
    /\ nested
    /\ budget.entries = 2
    /\ Depth = 1
    /\ Top.pc \notin {"store", "call", "callback"}
    /\ Top.calls = 1
    /\ user_callback = 1
    /\ status = "ok"

\* C17: while a callback body runs, the loop holds none of the callback-slot
\* lock, the window-registry lock and the modifier-state lock: each was released
\* before the callback was entered, in poll_events and in run_forever, for an
\* event drained from the pending queue and for one just translated
C17_NoLockAcrossCallback ==
    (\E i \in 1..Depth : stack[i].pc = "callback") =>
        /\ held["user_callback"] = 0
        /\ held["windows"] = 0
        /\ held["modifiers"] = 0

\* C17: run_forever is inside the callback with an event drained from the
\* pending queue, whose lock is the only one held
C17_Witness ==
    /\ Depth > 0
    /\ Top.kind = "run_forever"
    /\ Top.pc = "callback"
    /\ Top.drained
    /\ held = [l \in Mutexes |-> IF l = "pending_events" THEN Depth ELSE 0]

\* a store step of the latest owner, a new invocation
C16_StoreStep == Len(stack') = Depth + 1

\* C16: installing a callback takes the slot from empty to occupied, and an
\* install while the slot is occupied fails and leaves the stored reference in
\* place
C16_InstallFailsWhenOccupied ==
    [][C16_StoreStep =>
         IF user_callback = 0
         THEN user_callback' = stack'[Depth + 1].id /\ status' = "ok"
         ELSE user_callback' = user_callback /\ status' # "ok"]_vars

\* C16 (amended): installing a callback stores the new reference whatever the
\* slot holds and never fails: an empty slot becomes occupied, an occupied
\* slot has its reference replaced
C16_InstallReplaces ==
    [][C16_StoreStep =>
         user_callback' = stack'[Depth + 1].id /\ status' = "ok"]_vars

\* C16: two installs with no uninstall between them: the slot holds the second
\* reference
C16_Witness ==
    /\ Depth = 2
    /\ budget.entries = 2
    /\ user_callback = stack[2].id
    /\ user_callback # stack[1].id
    /\ status = "ok"

\* the native event types that have no arm in the translator
C21_Unrecognized == {"NSPeriodic", "NSAppKitDefined", "NSSystemDefined"}

\* C21: an application-defined native event yields Awakened if and only if it
\* carries the wake subtype interrupt() posts; an application-defined event of
\* another subtype, the type-21 event and an event of an unrecognized type
\* yield no event and leave the pending queue and the modifier state as they
\* are; Awakened comes from nothing else
C21_AwakenedOnlyForWake ==
    /\ [][TranslateStep({"NSApplicationDefined", "Type21"} \cup C21_Unrecognized) =>
            LET e == Top.ns_event[1]
                wake == /\ e.type = "NSApplicationDefined"
                        /\ e.subtype = "NSApplicationActivatedEventType"
            IN  /\ UNCHANGED <<pending_events, modifiers>>
                /\ stack'[Depth].out
                     = (IF wake THEN <<into_event(e.window, Awakened)>> ELSE <<>>)
                /\ stack'[Depth].event
                     = (IF wake THEN Some(into_event(e.window, Awakened)) ELSE None)
                /\ produced' = produced \o stack'[Depth].out]_vars
    /\ [][\A i \in (Len(produced) + 1)..Len(produced') :
            produced'[i].event.kind = "Awakened" =>
                /\ TranslateStep({"NSApplicationDefined"})
                /\ Top.ns_event[1].subtype = "NSApplicationActivatedEventType"]_vars

\* C21: an application-defined event with another subtype gave nothing
C21_Witness ==
    /\ JustTranslated({"NSApplicationDefined"})
    /\ Top.ns_event[1].subtype = "NSWindowExposedEventType"
    /\ Top.out = <<>>
    /\ produced = <<>>
    /\ pending_events = <<>>

\* C22: whenever poll_events or run_forever has returned and no invocation is
\* live, the pending queue is empty and every event the translator built has
\* been passed to a callback, also when run_forever returned on an interrupt
C22_PendingEmptyOnReturn ==
    Depth = 0 => pending_events = <<>> /\ delivered = produced

\* C23: an interrupt() issued on another thread after run_forever was called
\* is never lost: run_forever is never left blocked in the fetch, the flag
\* clear and the native queue empty, once such an interrupt() has completed
C23_InterruptNeverLost ==
    ~ /\ Depth = 1
      /\ Top.kind = "run_forever"
      /\ Top.pc = "fetch"
      /\ Top.set_since
      /\ ipc = "idle"
      /\ ~interrupted
      /\ native = <<>>

\* C24: with finitely many native events queued and a callback that returns
\* without posting native events or re-entering the loop, poll_events returns,
\* whatever the pending queue held on entry, after at most one fetch per queued
\* native event and one more
C24_PollTerminates ==
    /\ <>(Depth = 0)
    /\ [](Depth > 0 => Top.fetches <= MaxSeq + 1)

\* C24: poll_events has returned after delivering what the pending queue held
\* on entry and what it built from two native events
C24_Witness ==
    /\ Depth = 0
    /\ Len(forwarded) = 2
    /\ produced # <<>>
    /\ Len(delivered) > Len(produced)
    /\ pending_events = <<>>

====
